---- MODULE Spec2Model ----
(***************************************************************************)
(* A model of tethercalc (src/tethercalc.py): the FFLogs client's          *)
(* pagination, the reconstruction of Dragon Sight tether intervals, the    *)
(* replay that attributes tick damage, and the per-interval merge,         *)
(* correction and ranking.                                                 *)
(*                                                                         *)
(* Python dicts are modelled as sequences of <<key, value>> pairs with     *)
(* distinct keys, in insertion order (the order Python iterates them in).  *)
(*                                                                         *)
(* Six specifications share the module:                                   *)
(*   Spec      one run of tethercalc(report, fight_id)                     *)
(*   SpecRank  the body of tethercalc's loop on arbitrary provider data    *)
(*   SpecTick  the event replay of get_tick_damages                        *)
(*   SpecApi   one call of fflogs_api                                      *)
(*   SpecWildfire  get_tick_damages on the wildfire events of a legacy log *)
(*   SpecTethers   get_tethers on a longer stream of tether events         *)
(***************************************************************************)
EXTENDS Integers, Sequences, FiniteSets, TLC

VARIABLES
    \* ---- one run of tethercalc
    pc,               \* "fights" | "get_tethers" | "tethers" | "loop" | "done" | "error"
                      \* | "idle"; "events" | "returned" in SpecTethers
    outcome,          \* how the run ended ("" while running)
    fights,           \* report_data['fights']
    fight_id,         \* the requested fight id
    version,          \* report_data['logVersion']
    encounter_start,
    encounter_end,
    tethers,          \* the list get_tethers builds
    n_events,         \* tether events consumed so far
    tev,              \* the last tether event consumed
    ordered,          \* the tether events so far came in non-decreasing timestamp order
    idx,              \* tethers already analysed by the loop
    correct,          \* tethercalc's local variable 'correct'
    results,          \* tethercalc's list 'results'
    queries,          \* provider calls issued so far, in order
    fetch_failure,    \* the exception fflogs_fetch raised on the last call ("" if none)
    \* ---- the loop body on arbitrary data
    rk_n,             \* intervals analysed
    rk_in,            \* the inputs of the last analysis
    rk_correct,       \* the local 'correct' carried between iterations
    rk_out,           \* the outcome of the last analysis
    \* ---- the replay of get_tick_damages
    tk_pc,            \* "replay" | "wildfire" | "done" | "idle"
    tk_version,
    tk_window,        \* the tether's start and end
    tk_wi,            \* wildfires already reconciled
    tk_n,             \* events replayed
    tk_event,         \* the event replayed last
    active_debuffs,
    tick_damage,
    wildfires,
    tk_queries,       \* secondary damage-table queries issued
    tk_in_range,      \* the events so far had timestamps in the queried range
    \* ---- one call of fflogs_api
    api_pc,           \* "call" | "loop" | "returned" | "raised" | "idle"
    api_call,
    api_stream,       \* the provider's events for the query
    api_cuts,         \* where the provider cuts the events into pages
    api_data,         \* the local 'data'
    api_start,        \* options['start']
    api_requests,     \* the value of options['start'] of each request sent
    api_pages,        \* the pages received, in order
    api_resp,         \* the provider's response to the last request
    api_error         \* the exception fflogs_fetch raised ("" if none)

run_vars  == <<pc, outcome, fights, fight_id, version, encounter_start, encounter_end,
               tethers, n_events, tev, ordered, idx, correct, results, queries,
               fetch_failure>>
rank_vars == <<rk_n, rk_in, rk_correct, rk_out>>
tick_vars == <<tk_pc, tk_version, tk_window, tk_wi, tk_n, tk_event, active_debuffs, tick_damage,
               wildfires, tk_queries, tk_in_range>>
api_vars  == <<api_pc, api_call, api_stream, api_cuts, api_data, api_start,
               api_requests, api_pages, api_resp, api_error>>
vars == <<run_vars, rank_vars, tick_vars, api_vars>>

(***************************************************************************)
(* Bounds of the model.                                                    *)
(***************************************************************************)
MaxTetherEvents == 2   \* tether events the provider delivers in one run
MaxEntries == 2        \* entries of a damage table
MaxIntervals == 2      \* intervals analysed in a row by SpecRank
MaxTickEvents == 2     \* events replayed by SpecTick
MaxStreamLen == 3      \* events of the provider's stream in SpecApi
MaxWildfireEvents == 3 \* events replayed by SpecWildfire
MaxLeftEyeEvents == 3  \* tether events replayed by SpecTethers

(***************************************************************************)
(* Program constants.                                                      *)
(***************************************************************************)
Lookback == 20000            \* a lost apply event is set 20 s before the remove
TickExtension == 60000       \* the tick query runs 60 s past the tether
RadiantShield == 799         \* the reflected/shared ability
Wildfire == 1000861          \* the legacy persistent effect
WildfireTail == 750          \* effective wildfire duration is 9.25 s
ShadowbringersVersion == 20  \* logVersion from which wildfire is an ordinary DoT
Absent == -1                 \* a key the dict does not hold

Max(a, b) == IF a >= b THEN a ELSE b

(***************************************************************************)
(* Dicts: sequences of <<key, value>> pairs, keys distinct.                *)
(***************************************************************************)
DictKeys(d) == {d[i][1] : i \in DOMAIN d}
DictHas(d, k) == k \in DictKeys(d)
DictGet(d, k) == d[CHOOSE i \in DOMAIN d : d[i][1] = k][2]
DictSet(d, k, v) ==
    IF DictHas(d, k)
    THEN [i \in DOMAIN d |-> IF d[i][1] = k THEN <<k, v>> ELSE d[i]]
    ELSE Append(d, <<k, v>>)
DictAdd(d, k, v) ==
    IF DictHas(d, k) THEN DictSet(d, k, DictGet(d, k) + v) ELSE DictSet(d, k, v)

(***************************************************************************)
(* The report: friendlies, fights, and the ids the provider data uses.     *)
(***************************************************************************)
Actors == {1, 2, 3}
Friends == [a \in Actors |->
              IF a = 1 THEN [name |-> "Aymeric", type |-> "Dragoon"]
              ELSE IF a = 2 THEN [name |-> "Yugiri", type |-> "Ninja"]
              ELSE [name |-> "Limit Break", type |-> "LimitBreak"]]
Unbound == "<unbound>"      \* a local variable that was never assigned

\* fights of the report, by id: id 1 spans the whole log, id 2 starts later
FightOf(id) == [id |-> id,
                start_time |-> IF id = 1 THEN 0 ELSE 10000,
                end_time |-> 30000]
FightLists == {<<>>, <<FightOf(1), FightOf(2)>>}
FightIds == {1, 2, 3}
LogVersions == {19, 20}
\* the logVersion of the reports given to a run of tethercalc: the legacy
\* format, in which a run makes every kind of fetch, the secondary one included
RunVersions == {19}

(***************************************************************************)
(* get_tethers: the list built from the Left Eye buff events.              *)
(***************************************************************************)
TetherTypes == {"applybuff", "removebuff", "refreshbuff"}
TetherTimes == {12000, 24000}
TetherEvents == [type : TetherTypes, sourceID : {1, 2}, targetID : {1, 2},
                 timestamp : TetherTimes]

\* indexes of the tethers of this source that have no 'end' yet (tether_set)
TetherSet(ts, sourceID) ==
    {i \in DOMAIN ts : ts[i].source = sourceID /\ ts[i].end = Absent}

\* TetherStep with the fault of a lookback that is not clamped to the fight's start
TetherStepUnclamped(ts, event, start) ==
    IF event.type = "applybuff"
    THEN Append(ts, [source |-> event.sourceID, target |-> event.targetID,
                     start |-> event.timestamp, end |-> Absent])
    ELSE IF event.type = "removebuff"
    THEN IF TetherSet(ts, event.sourceID) # {}
         THEN LET i == CHOOSE j \in TetherSet(ts, event.sourceID) :
                           \A k \in TetherSet(ts, event.sourceID) : j <= k
              IN [ts EXCEPT ![i].end = event.timestamp]
         ELSE Append(ts, [source |-> event.sourceID, target |-> event.targetID,
                          start |-> event.timestamp - Lookback,
                          end |-> event.timestamp])
    ELSE ts

\* TetherStep with the fault of a remove that closes the latest open tether
TetherStepClosingLatest(ts, event, start) ==
    IF event.type = "applybuff"
    THEN Append(ts, [source |-> event.sourceID, target |-> event.targetID,
                     start |-> event.timestamp, end |-> Absent])
    ELSE IF event.type = "removebuff"
    THEN IF TetherSet(ts, event.sourceID) # {}
         THEN LET i == CHOOSE j \in TetherSet(ts, event.sourceID) :
                           \A k \in TetherSet(ts, event.sourceID) : j >= k
              IN [ts EXCEPT ![i].end = event.timestamp]
         ELSE Append(ts, [source |-> event.sourceID, target |-> event.targetID,
                          start |-> Max(event.timestamp - Lookback, start),
                          end |-> event.timestamp])
    ELSE ts

\* one iteration of the loop over event_data['events']
TetherStep(ts, event, start) ==
    IF event.type = "applybuff"
    THEN Append(ts, [source |-> event.sourceID, target |-> event.targetID,
                     start |-> event.timestamp, end |-> Absent])
    ELSE IF event.type = "removebuff"
    THEN IF TetherSet(ts, event.sourceID) # {}
         THEN LET i == CHOOSE j \in TetherSet(ts, event.sourceID) :
                           \A k \in TetherSet(ts, event.sourceID) : j <= k
              IN [ts EXCEPT ![i].end = event.timestamp]
         ELSE Append(ts, [source |-> event.sourceID, target |-> event.targetID,
                          start |-> Max(event.timestamp - Lookback, start),
                          end |-> event.timestamp])
    ELSE ts

\* ClampTether with the fault of a missing end set to the fight's start
ClampTetherToStart(t, enc_start, enc_end) ==
    [t EXCEPT !.start = IF @ = Absent THEN enc_start ELSE @,
              !.end = IF @ = Absent THEN enc_start ELSE @]

\* tethercalc: a tether missing its start or end gets the fight's
ClampTether(t, enc_start, enc_end) ==
    [t EXCEPT !.start = IF @ = Absent THEN enc_start ELSE @,
              !.end = IF @ = Absent THEN enc_end ELSE @]

(***************************************************************************)
(* get_damages, get_real_damages and the ranking of one interval.          *)
(***************************************************************************)
RECURSIVE GetDamagesFrom(_, _, _)
GetDamagesFrom(entries, i, damages) ==
    IF i > Len(entries) THEN damages
    ELSE GetDamagesFrom(entries, i + 1, DictSet(damages, entries[i].id, entries[i].total))

\* damages[damage['id']] = damage['total'] for each entry of the table
GetDamages(entries) == GetDamagesFrom(entries, 1, <<>>)

\* real_damages: one pair per key of damages, the tick total added when there is one
GetRealDamages(damages, tick_damages) ==
    [i \in DOMAIN damages |->
        IF DictHas(tick_damages, damages[i][1])
        THEN <<damages[i][1], damages[i][2] + DictGet(tick_damages, damages[i][1])>>
        ELSE damages[i]]

\* RemoveBonus with the fault of rounding to the nearest integer
RemoveBonusRounded(x) == (x * 100 + 52) \div 105

\* int(x / 1.05); for 0 <= x < 3000000 the float quotient truncates to (100 x) div 105
RemoveBonus(x) == (x * 100) \div 105

\* real_damages[target] = int(real_damages[target] / 1.05) when the target has an entry
CorrectTarget(real_damages, target) ==
    IF DictHas(real_damages, target)
    THEN DictSet(real_damages, target, RemoveBonus(DictGet(real_damages, target)))
    ELSE real_damages

\* where a pair goes in a list already in descending order: behind every pair
\* whose amount is not smaller (the sort is stable)
InsertDesc(sorted, pair) ==
    LET before == {i \in DOMAIN sorted : sorted[i][2] >= pair[2]}
        k == Cardinality(before)
    IN SubSeq(sorted, 1, k) \o <<pair>> \o SubSeq(sorted, k + 1, Len(sorted))

\* SortDamages with the fault of a missing reverse=True
SortDamagesAscending(items) ==
    LET n == Len(items)
        rank(i) == Cardinality({j \in 1..n : items[j][2] < items[i][2]
                                              \/ (items[j][2] = items[i][2] /\ j < i)}) + 1
    IN [k \in 1..n |-> items[CHOOSE i \in 1..n : rank(i) = k]]

RECURSIVE SortFrom(_, _, _)
SortFrom(items, i, sorted) ==
    IF i > Len(items) THEN sorted
    ELSE SortFrom(items, i + 1, InsertDesc(sorted, items[i]))

\* sorted(real_damages.items(), key=lambda dmg: dmg[1], reverse=True)
SortDamages(items) == SortFrom(items, 1, <<>>)

\* the loop 'for top in damage_list', from position i, with the current value of 'correct'
RECURSIVE PickCorrect(_, _, _, _)
PickCorrect(damage_list, i, source, cur) ==
    IF i > Len(damage_list) THEN cur
    ELSE IF damage_list[i][1] # source /\ Friends[damage_list[i][1]].type # "LimitBreak"
    THEN Friends[damage_list[i][1]].name
    ELSE PickCorrect(damage_list, i + 1, source, cur)

\* str(timedelta(milliseconds=ms))[2:11]: minutes, seconds and milliseconds of a
\* duration under an hour; the hours are cut off
TimingText(ms) ==
    [min |-> (ms \div 60000) % 60, sec |-> (ms \div 1000) % 60, msec |-> ms % 1000]

\* 'if not correct: correct = "Nobody?"', for a local that holds a value
OrNobody(cur) == IF cur = "" THEN "Nobody?" ELSE cur

\* the body of tethercalc's loop for one (clamped) tether, from the merge on;
\* 'if not correct' reads the local, which raises UnboundLocalError when neither
\* this iteration nor an earlier one assigned it
AnalyseTether(t, damages, tick_damages, cur, enc_start) ==
    LET real_damages == CorrectTarget(GetRealDamages(damages, tick_damages), t.target)
        damage_list == SortDamages(real_damages)
        picked == PickCorrect(damage_list, 1, t.source, cur)
    IN [correct |-> IF picked = Unbound THEN Unbound ELSE OrNobody(picked),
        raised |-> IF picked = Unbound THEN "UnboundLocalError" ELSE "",
        result |-> [damages |-> damage_list,
                    timing |-> TimingText(t.start - enc_start),
                    source |-> t.source,
                    target |-> t.target,
                    correct |-> OrNobody(picked)]]

(***************************************************************************)
(* get_tick_damages: the replay of the tick events of one window.          *)
(***************************************************************************)
ApplyTypes == {"applydebuff", "refreshdebuff", "applybuff", "refreshbuff"}
NoWildfire == [start |-> Absent, end |-> Absent, damage |-> Absent, target |-> Absent]

\* WildfireStep with the fault of an end that every removal overwrites
WildfireStepLastEnd(wf, event) ==
    LET old == IF DictHas(wf, event.sourceID) THEN DictGet(wf, event.sourceID)
               ELSE NoWildfire
        seen == IF event.type = "applydebuff" /\ old.start = Absent
                THEN [old EXCEPT !.start = event.timestamp]
                ELSE IF event.type = "removedebuff"
                THEN [old EXCEPT !.end = event.timestamp - WildfireTail]
                ELSE IF event.type = "damage" /\ old.damage = Absent
                THEN [old EXCEPT !.damage = event.amount]
                ELSE old
    IN DictSet(wf, event.sourceID, [seen EXCEPT !.target = event.targetID])

\* lines 204-224: the wildfire record of the event's source after the event
WildfireStep(wf, event) ==
    LET old == IF DictHas(wf, event.sourceID) THEN DictGet(wf, event.sourceID)
               ELSE NoWildfire
        seen == IF event.type = "applydebuff" /\ old.start = Absent
                THEN [old EXCEPT !.start = event.timestamp]
                ELSE IF event.type = "removedebuff" /\ old.end = Absent
                THEN [old EXCEPT !.end = event.timestamp - WildfireTail]
                ELSE IF event.type = "damage" /\ old.damage = Absent
                THEN [old EXCEPT !.damage = event.amount]
                ELSE old
    IN DictSet(wf, event.sourceID, [seen EXCEPT !.target = event.targetID])

\* list.remove: the first occurrence goes
ListRemove(list, x) ==
    LET i == CHOOSE j \in DOMAIN list : list[j] = x /\ \A k \in 1..(j - 1) : list[k] # x
    IN SubSeq(list, 1, i - 1) \o SubSeq(list, i + 1, Len(list))

InList(list, x) == \E i \in DOMAIN list : list[i] = x

\* DamageStep with the fault of a radiant shield hit credited to its source
DamageStepToSource(tick, active, event, end) ==
    IF event.guid = RadiantShield /\ event.timestamp < end
    THEN DictAdd(tick, event.sourceID, event.amount)
    ELSE IF InList(active, <<event.sourceID, event.guid>>)
    THEN DictAdd(tick, event.sourceID, event.amount)
    ELSE tick

\* lines 242-256: a damage event credits the support actor, the source, or nobody
DamageStep(tick, active, event, end) ==
    IF event.guid = RadiantShield /\ event.timestamp < end
    THEN DictAdd(tick, event.supportID, event.amount)
    ELSE IF InList(active, <<event.sourceID, event.guid>>)
    THEN DictAdd(tick, event.sourceID, event.amount)
    ELSE tick

\* TickStep with the fault of version 20 still taken for a legacy log
TickStepLegacyAt20(st, event, ver, end) ==
    LET action == <<event.sourceID, event.guid>>
    IN IF event.guid = Wildfire /\ ver <= ShadowbringersVersion
       THEN [st EXCEPT !.wf = WildfireStep(st.wf, event)]
       ELSE IF event.type \in ApplyTypes /\ event.timestamp < end
       THEN IF InList(st.active, action) THEN st
            ELSE [st EXCEPT !.active = Append(st.active, action)]
       ELSE IF event.type \in ApplyTypes /\ event.timestamp > end
       THEN IF InList(st.active, action)
            THEN [st EXCEPT !.active = ListRemove(st.active, action)]
            ELSE st
       ELSE IF event.type = "damage"
       THEN [st EXCEPT !.tick = DamageStep(st.tick, st.active, event, end)]
       ELSE st

\* TickStep with the fault of an application at 'end' counted as inside
TickStepAtEnd(st, event, ver, end) ==
    LET action == <<event.sourceID, event.guid>>
    IN IF event.guid = Wildfire /\ ver < ShadowbringersVersion
       THEN [st EXCEPT !.wf = WildfireStep(st.wf, event)]
       ELSE IF event.type \in ApplyTypes /\ event.timestamp <= end
       THEN IF InList(st.active, action) THEN st
            ELSE [st EXCEPT !.active = Append(st.active, action)]
       ELSE IF event.type \in ApplyTypes /\ event.timestamp > end
       THEN IF InList(st.active, action)
            THEN [st EXCEPT !.active = ListRemove(st.active, action)]
            ELSE st
       ELSE IF event.type = "damage"
       THEN [st EXCEPT !.tick = DamageStep(st.tick, st.active, event, end)]
       ELSE st

\* one iteration of the loop over tick_data['events'];
\* st = [active |-> active_debuffs, tick |-> tick_damage, wf |-> wildfires]
TickStep(st, event, ver, end) ==
    LET action == <<event.sourceID, event.guid>>
    IN IF event.guid = Wildfire /\ ver < ShadowbringersVersion
       THEN [st EXCEPT !.wf = WildfireStep(st.wf, event)]
       ELSE IF event.type \in ApplyTypes /\ event.timestamp < end
       THEN IF InList(st.active, action) THEN st
            ELSE [st EXCEPT !.active = Append(st.active, action)]
       ELSE IF event.type \in ApplyTypes /\ event.timestamp > end
       THEN IF InList(st.active, action)
            THEN [st EXCEPT !.active = ListRemove(st.active, action)]
            ELSE st
       ELSE IF event.type = "damage"
       THEN [st EXCEPT !.tick = DamageStep(st.tick, st.active, event, end)]
       ELSE st

\* lines 261-309 for one wildfire: what the clamped record is, whether the
\* secondary damage-table query is sent, and the tick totals after it;
\* entries is the provider's answer to that query
WildfireQuery(w, start, end) ==
    [start |-> IF w.start = Absent THEN start ELSE w.start,
     end |-> IF w.end > end THEN end ELSE w.end]

WildfireCase(w, start, end) ==
    IF w.start # Absent /\ w.end # Absent /\ w.start > start /\ w.end < end
    THEN "inside"
    ELSE IF w.start # Absent /\ w.start > end THEN "after"
    ELSE IF w.end # Absent THEN "partial"
    ELSE "none"

\* int(0.25 * total)
Quarter(total) == total \div 4

\* Reconcile with the fault of an empty answer counted as a total of zero
ReconcileZeroEntry(tick, source, w, start, end, entries) ==
    LET damage == IF w.damage = Absent THEN 0 ELSE w.damage
        case == WildfireCase(w, start, end)
    IN IF case = "inside" THEN DictAdd(tick, source, damage)
       ELSE IF case = "partial"
       THEN DictAdd(tick, source, IF Len(entries) > 0 THEN Quarter(entries[1].total) ELSE 0)
       ELSE tick

Reconcile(tick, source, w, start, end, entries) ==
    LET damage == IF w.damage = Absent THEN 0 ELSE w.damage
        case == WildfireCase(w, start, end)
    IN IF case = "inside" THEN DictAdd(tick, source, damage)
       ELSE IF case = "partial" /\ Len(entries) > 0
       THEN DictAdd(tick, source, Quarter(entries[1].total))
       ELSE tick

RECURSIVE ReplayFrom(_, _, _, _, _)
ReplayFrom(events, i, st, ver, end) ==
    IF i > Len(events) THEN st
    ELSE ReplayFrom(events, i + 1, TickStep(st, events[i], ver, end), ver, end)

RECURSIVE ReconcileFrom(_, _, _, _, _, _)
ReconcileFrom(wf, i, tick, start, end, answers) ==
    IF i > Len(wf) THEN tick
    ELSE ReconcileFrom(wf, i + 1,
                       Reconcile(tick, wf[i][1], wf[i][2], start, end, answers),
                       start, end, answers)

RECURSIVE SecondaryFrom(_, _, _, _)
SecondaryFrom(wf, i, start, end) ==
    IF i > Len(wf) THEN <<>>
    ELSE (IF WildfireCase(wf[i][2], start, end) = "partial"
          THEN <<[call |-> "tables/damage-done",
                  start |-> WildfireQuery(wf[i][2], start, end).start,
                  end |-> WildfireQuery(wf[i][2], start, end).end,
                  sourceid |-> wf[i][1], targetid |-> wf[i][2].target]>>
          ELSE <<>>) \o SecondaryFrom(wf, i + 1, start, end)

EmptyTick == [active |-> <<>>, tick |-> <<>>, wf |-> <<>>]

\* get_tick_damages(report, version, start, end) on the events the provider
\* returns, every secondary query answered with 'answers'
GetTickDamages(events, ver, start, end, answers) ==
    LET st == ReplayFrom(events, 1, EmptyTick, ver, end)
    IN ReconcileFrom(st.wf, 1, st.tick, start, end, answers)

\* the secondary queries that call sends
GetTickQueries(events, ver, start, end) ==
    SecondaryFrom(ReplayFrom(events, 1, EmptyTick, ver, end).wf, 1, start, end)

(***************************************************************************)
(* Provider data the specifications draw from.                             *)
(***************************************************************************)
Totals == {3000, 5000}
Entries == [id : Actors, total : Totals]
DistinctIds(table) == \A i, j \in DOMAIN table : i # j => table[i].id # table[j].id
RECURSIVE TablesOfLen(_)
TablesOfLen(n) ==
    IF n = 0 THEN {<<>>}
    ELSE {t \in {Append(u, e) : u \in TablesOfLen(n - 1), e \in Entries} : DistinctIds(t)}
\* the damage tables of at most n entries, one entry per id
Tables(n) == UNION {TablesOfLen(k) : k \in 0..n}

TickTotals == <<<<1, 1000>>, <<2, 1000>>>>
\* the tick totals get_tick_damages may return: any of the players, 1000 each
TickMaps == {SelectSeq(TickTotals, LAMBDA p : p[1] \in S) : S \in SUBSET {1, 2}}

Abilities == {1000118, RadiantShield, Wildfire}
TickTypes == {"applydebuff", "refreshbuff", "removedebuff", "damage"}
TickTimes == {800, 4000, 5000, 6000}
TickEvents == [type : TickTypes, timestamp : TickTimes, sourceID : {1, 2},
               targetID : {9}, guid : Abilities, amount : {1000}, supportID : {3}]
Windows == {[start |-> 1000, end |-> 5000]}
\* lines 147-149: the stream is queried from the window's start to 60 s after
\* its end
InRange(event, window) ==
    window.start <= event.timestamp /\ event.timestamp <= window.end + TickExtension

\* the events of the legacy wildfire ability: two targets and two amounts, so
\* that a later event of a source differs from its earlier ones; 1500 is less
\* than the wildfire's tail after the window's start
WildfireTimes == TickTimes \cup {1500}
WildfireEvents ==
    [type : {"applydebuff", "removedebuff"}, timestamp : WildfireTimes, sourceID : {1, 2},
     targetID : {8, 9}, guid : {Wildfire}, amount : {0}, supportID : {3}]
    \cup [type : {"damage"}, timestamp : {5000}, sourceID : {1, 2},
          targetID : {8, 9}, guid : {Wildfire}, amount : {1000, 2000}, supportID : {3}]
LegacyVersions == {19}
\* the provider's answers to a secondary damage-table query
Answers == {<<>>, <<[id |-> 1, total |-> 4001]>>}

\* the tables and tick streams a run of tethercalc is given for one tether
RunTables == {<<>>, <<[id |-> 3, total |-> 5000]>>,
              <<[id |-> 1, total |-> 5000], [id |-> 2, total |-> 3000]>>}
RunTickStreams(t) ==
    {<<>>,
     <<[type |-> "applydebuff", timestamp |-> t.start, sourceID |-> 1, targetID |-> 9,
        guid |-> 1000118, amount |-> 0, supportID |-> 3],
       [type |-> "damage", timestamp |-> t.end, sourceID |-> 1, targetID |-> 9,
        guid |-> 1000118, amount |-> 1000, supportID |-> 3],
       [type |-> "removedebuff", timestamp |-> t.end, sourceID |-> 2, targetID |-> 9,
        guid |-> Wildfire, amount |-> 0, supportID |-> 3]>>}

(***************************************************************************)
(* Initial states.                                                         *)
(***************************************************************************)
NoEvent == [type |-> "", timestamp |-> 0, sourceID |-> 0, targetID |-> 0,
            guid |-> 0, amount |-> 0, supportID |-> 0]
NoTetherEvent == [type |-> "", sourceID |-> 0, targetID |-> 0, timestamp |-> 0]
\* what the provider can answer to one request: a body that parses as JSON
\* or not, the HTTP status, and whether the parsed body has an 'error' key
HttpOk == 200
Statuses == {HttpOk, 400}
Responses == [parseable : BOOLEAN, status : Statuses, has_error : BOOLEAN]
NoResponse == [parseable |-> TRUE, status |-> 0, has_error |-> FALSE]
CouldNotParse == "TetherCalcException: Could not parse response"
FFLogsError == "TetherCalcException: FFLogs error"
UnexpectedCode == "TetherCalcException: Unexpected FFLogs response code"

\* fflogs_fetch(api_url, options): the exception it raises for a response,
\* "" when it returns the parsed body. Line 37 appends the integer
\* response.status_code to a str, which raises TypeError before the
\* TetherCalcException is constructed.
FetchOutcome(resp) ==
    IF ~resp.parseable THEN CouldNotParse
    ELSE IF resp.status # HttpOk
         THEN IF resp.has_error THEN FFLogsError ELSE "TypeError"
         ELSE ""
FetchErrors == {CouldNotParse, FFLogsError, "TypeError"}

NoData == [events |-> <<>>, next |-> Absent]

RunIdle ==
    /\ pc = "idle" /\ outcome = "" /\ fights = <<>> /\ fight_id = 0 /\ version = 0
    /\ encounter_start = 0 /\ encounter_end = 0 /\ tethers = <<>> /\ n_events = 0
    /\ tev = NoTetherEvent /\ ordered = TRUE /\ idx = 0 /\ correct = Unbound
    /\ results = <<>> /\ queries = <<>> /\ fetch_failure = ""

RunInit ==
    /\ pc = "fights" /\ outcome = ""
    /\ fights \in FightLists /\ fight_id \in FightIds /\ version = 0
    /\ encounter_start = 0 /\ encounter_end = 0 /\ tethers = <<>> /\ n_events = 0
    /\ tev = NoTetherEvent /\ ordered = TRUE /\ idx = 0 /\ correct = Unbound
    /\ results = <<>> /\ queries = <<>> /\ fetch_failure = ""

RankIdle ==
    /\ rk_n = 0 /\ rk_in = <<>> /\ rk_correct = Unbound /\ rk_out = <<>>

TickIdle ==
    /\ tk_pc = "idle" /\ tk_version = 0 /\ tk_window = [start |-> 0, end |-> 0]
    /\ tk_wi = 0 /\ tk_n = 0 /\ tk_event = NoEvent /\ active_debuffs = <<>>
    /\ tick_damage = <<>> /\ wildfires = <<>> /\ tk_queries = <<>>
    /\ tk_in_range = TRUE

TickInit ==
    /\ tk_pc = "replay" /\ tk_version \in LogVersions /\ tk_window \in Windows
    /\ tk_wi = 0 /\ tk_n = 0 /\ tk_event = NoEvent /\ active_debuffs = <<>>
    /\ tick_damage = <<>> /\ wildfires = <<>> /\ tk_queries = <<>>
    /\ tk_in_range = TRUE

\* get_tick_damages is called on a legacy log
WildfireInit ==
    /\ tk_pc = "replay" /\ tk_version \in LegacyVersions /\ tk_window \in Windows
    /\ tk_wi = 0 /\ tk_n = 0 /\ tk_event = NoEvent /\ active_debuffs = <<>>
    /\ tick_damage = <<>> /\ wildfires = <<>> /\ tk_queries = <<>>
    /\ tk_in_range = TRUE

ApiIdle ==
    /\ api_pc = "idle" /\ api_call = "" /\ api_stream = <<>> /\ api_cuts = {}
    /\ api_data = NoData /\ api_start = 0 /\ api_requests = <<>> /\ api_pages = <<>>
    /\ api_resp = NoResponse /\ api_error = ""

(***************************************************************************)
(* tethercalc(report, fight_id), one step at a time.                       *)
(***************************************************************************)
Query(call, start, end) == [call |-> call, start |-> start, end |-> end]

\* [fight for fight in report_data['fights'] if fight['id'] == fight_id]
MatchingFights(fs, id) == SelectSeq(fs, LAMBDA f : f.id = id)

\* lines 373-377: no fight has the id, and [0] of the empty list raises IndexError
FetchFightsMissing ==
    /\ pc = "fights"
    /\ MatchingFights(fights, fight_id) = <<>>
    /\ queries' = Append(queries, Query("fights", Absent, Absent))
    /\ pc' = "error"
    /\ outcome' = "IndexError"
    /\ UNCHANGED <<fights, fight_id, version, encounter_start, encounter_end, tethers,
                   n_events, tev, ordered, idx, correct, results>>
    /\ UNCHANGED <<fetch_failure, rank_vars, tick_vars, api_vars>>

\* lines 373-394: the fight is found ('if not fight' is false of a fight record)
FetchFightsFound ==
    /\ pc = "fights"
    /\ MatchingFights(fights, fight_id) # <<>>
    /\ queries' = Append(queries, Query("fights", Absent, Absent))
    /\ \E v \in RunVersions : version' = v
    /\ encounter_start' = MatchingFights(fights, fight_id)[1].start_time
    /\ encounter_end' = MatchingFights(fights, fight_id)[1].end_time
    /\ pc' = "get_tethers"
    /\ UNCHANGED <<outcome, fights, fight_id, tethers, n_events, tev, ordered, idx,
                   correct, results>>
    /\ UNCHANGED <<fetch_failure, rank_vars, tick_vars, api_vars>>

\* lines 82-90: get_tethers asks for the Left Eye events of the encounter
CallGetTethers ==
    /\ pc = "get_tethers"
    /\ queries' = Append(queries, Query("events/summary", encounter_start, encounter_end))
    /\ pc' = "tethers"
    /\ UNCHANGED <<outcome, fights, fight_id, version, encounter_start, encounter_end,
                   tethers, n_events, tev, ordered, idx, correct, results>>
    /\ UNCHANGED <<fetch_failure, rank_vars, tick_vars, api_vars>>

\* lines 93-117: the next event of the stream
TetherEvent ==
    /\ pc = "tethers"
    /\ n_events < MaxTetherEvents
    /\ \E event \in TetherEvents :
        /\ tethers' = TetherStep(tethers, event, encounter_start)
        /\ ordered' = (ordered /\ (n_events = 0 \/ tev.timestamp <= event.timestamp))
        /\ tev' = event
    /\ n_events' = n_events + 1
    /\ UNCHANGED <<pc, outcome, fights, fight_id, version, encounter_start,
                   encounter_end, idx, correct, results, queries>>
    /\ UNCHANGED <<fetch_failure, rank_vars, tick_vars, api_vars>>

\* lines 397-400: the stream is over and the list is empty
NoTethers ==
    /\ pc = "tethers"
    /\ tethers = <<>>
    /\ pc' = "error"
    /\ outcome' = "TetherCalcException: No tethers found in fight"
    /\ UNCHANGED <<fights, fight_id, version, encounter_start, encounter_end, tethers,
                   n_events, tev, ordered, idx, correct, results, queries>>
    /\ UNCHANGED <<fetch_failure, rank_vars, tick_vars, api_vars>>

\* StartLoop with the fault of a missing 'if not tethers' test
StartLoopUnguarded ==
    /\ pc = "tethers"
    /\ pc' = "loop"
    /\ UNCHANGED <<outcome, fights, fight_id, version, encounter_start, encounter_end,
                   tethers, n_events, tev, ordered, idx, correct, results, queries>>
    /\ UNCHANGED <<fetch_failure, rank_vars, tick_vars, api_vars>>

\* lines 397-402: the stream is over and there are tethers
StartLoop ==
    /\ pc = "tethers"
    /\ tethers # <<>>
    /\ pc' = "loop"
    /\ UNCHANGED <<outcome, fights, fight_id, version, encounter_start, encounter_end,
                   tethers, n_events, tev, ordered, idx, correct, results, queries>>
    /\ UNCHANGED <<fetch_failure, rank_vars, tick_vars, api_vars>>

\* lines 404-446: one iteration of 'for tether in tethers'
ProcessTether ==
    /\ pc = "loop"
    /\ idx < Len(tethers)
    /\ LET t == ClampTether(tethers[idx + 1], encounter_start, encounter_end)
       IN \E table \in RunTables, stream \in RunTickStreams(t) :
            LET tick == GetTickDamages(stream, version, t.start, t.end, <<>>)
                a == AnalyseTether(t, GetDamages(table), tick, correct, encounter_start)
            IN /\ tethers' = [tethers EXCEPT ![idx + 1] = t]
               /\ queries' = queries
                      \o <<Query("tables/damage-done", t.start, t.end),
                           Query("events/summary", t.start, t.end + TickExtension)>>
                      \o GetTickQueries(stream, version, t.start, t.end)
               /\ IF a.raised # ""
                  THEN /\ pc' = "error"
                       /\ outcome' = a.raised
                       /\ UNCHANGED <<idx, correct, results>>
                  ELSE /\ results' = Append(results, a.result)
                       /\ correct' = a.correct
                       /\ idx' = idx + 1
                       /\ UNCHANGED <<pc, outcome>>
    /\ UNCHANGED <<fights, fight_id, version, encounter_start, encounter_end, n_events,
                   tev, ordered>>
    /\ UNCHANGED <<fetch_failure, rank_vars, tick_vars, api_vars>>

\* line 448: return results, friends, encounter_info
ReturnResults ==
    /\ pc = "loop"
    /\ idx = Len(tethers)
    /\ pc' = "done"
    /\ outcome' = "ok"
    /\ UNCHANGED <<fights, fight_id, version, encounter_start, encounter_end, tethers,
                   n_events, tev, ordered, idx, correct, results, queries>>
    /\ UNCHANGED <<fetch_failure, rank_vars, tick_vars, api_vars>>

\* line 373: the fetch of the fight list raises; nothing in tethercalc catches it
FetchFightsFails ==
    /\ pc = "fights"
    /\ queries' = Append(queries, Query("fights", Absent, Absent))
    /\ \E e \in FetchErrors : fetch_failure' = e /\ outcome' = e
    /\ pc' = "error"
    /\ UNCHANGED <<fights, fight_id, version, encounter_start, encounter_end, tethers,
                   n_events, tev, ordered, idx, correct, results>>
    /\ UNCHANGED <<rank_vars, tick_vars, api_vars>>

\* lines 90 and 395: a fetch of the tether events raises inside get_tethers
GetTethersFails ==
    /\ pc = "get_tethers"
    /\ queries' = Append(queries, Query("events/summary", encounter_start, encounter_end))
    /\ \E e \in FetchErrors : fetch_failure' = e /\ outcome' = e
    /\ pc' = "error"
    /\ UNCHANGED <<fights, fight_id, version, encounter_start, encounter_end, tethers,
                   n_events, tev, ordered, idx, correct, results>>
    /\ UNCHANGED <<rank_vars, tick_vars, api_vars>>

\* the fetches of one iteration, in the order the code makes them
FetchPoints == {"damage", "tick", "secondary"}
SentUntil(point, t, secondary) ==
    IF point = "damage" THEN <<Query("tables/damage-done", t.start, t.end)>>
    ELSE <<Query("tables/damage-done", t.start, t.end),
           Query("events/summary", t.start, t.end + TickExtension)>>
         \o (IF point = "secondary" THEN <<secondary[1]>> ELSE <<>>)

\* ProcessTetherFails with the fault of an except clause that skips the tether
ProcessTetherSkips ==
    /\ pc = "loop"
    /\ idx < Len(tethers)
    /\ LET t == ClampTether(tethers[idx + 1], encounter_start, encounter_end)
       IN \E point \in FetchPoints, stream \in RunTickStreams(t), e \in FetchErrors :
            LET secondary == GetTickQueries(stream, version, t.start, t.end)
            IN /\ point = "secondary" => secondary # <<>>
               /\ tethers' = [tethers EXCEPT ![idx + 1] = t]
               /\ queries' = queries \o SentUntil(point, t, secondary)
               /\ fetch_failure' = e
               /\ idx' = idx + 1
               /\ UNCHANGED <<pc, outcome>>
    /\ UNCHANGED <<fights, fight_id, version, encounter_start, encounter_end, n_events,
                   tev, ordered, correct, results>>
    /\ UNCHANGED <<rank_vars, tick_vars, api_vars>>

\* lines 404-416: a fetch of the iteration raises - the damage table's, the
\* tick stream's or the first secondary query's - and leaves the loop and
\* tethercalc; the tether was clamped before
ProcessTetherFails ==
    /\ pc = "loop"
    /\ idx < Len(tethers)
    /\ LET t == ClampTether(tethers[idx + 1], encounter_start, encounter_end)
       IN \E point \in FetchPoints, stream \in RunTickStreams(t), e \in FetchErrors :
            LET secondary == GetTickQueries(stream, version, t.start, t.end)
            IN /\ point = "secondary" => secondary # <<>>
               /\ tethers' = [tethers EXCEPT ![idx + 1] = t]
               /\ queries' = queries \o SentUntil(point, t, secondary)
               /\ fetch_failure' = e
               /\ outcome' = e
               /\ pc' = "error"
    /\ UNCHANGED <<fights, fight_id, version, encounter_start, encounter_end, n_events,
                   tev, ordered, idx, correct, results>>
    /\ UNCHANGED <<rank_vars, tick_vars, api_vars>>

Init == RunInit /\ RankIdle /\ TickIdle /\ ApiIdle
Next ==
    \/ FetchFightsMissing
    \/ FetchFightsFound
    \/ FetchFightsFails
    \/ GetTethersFails
    \/ ProcessTetherFails
    \/ CallGetTethers
    \/ TetherEvent
    \/ NoTethers
    \/ StartLoop
    \/ ProcessTether
    \/ ReturnResults
Spec == Init /\ [][Next]_vars

(***************************************************************************)
(* The body of tethercalc's loop, interval after interval, on arbitrary    *)
(* tethers, damage tables and tick totals.                                 *)
(***************************************************************************)
RankTethers == {[source |-> 1, target |-> 2, start |-> 12000, end |-> 24000],
                [source |-> 2, target |-> 1, start |-> 12000, end |-> 24000]}
RankTables == Tables(MaxEntries)

RankInit ==
    /\ rk_n = 0 /\ rk_in = <<>> /\ rk_correct = Unbound /\ rk_out = <<>>

\* lines 418-446 for one tether; the local 'correct' is the one the iteration
\* before left
RankInterval ==
    /\ rk_n < MaxIntervals
    /\ rk_n > 0 => rk_out[1].raised = ""
    /\ \E t \in RankTethers, table \in RankTables, tick \in TickMaps :
        LET a == AnalyseTether(t, GetDamages(table), tick, rk_correct, 0)
        IN /\ rk_in' = <<[tether |-> t, damages |-> GetDamages(table), tick |-> tick,
                          cur |-> rk_correct]>>
           /\ rk_out' = <<a>>
           /\ rk_correct' = a.correct
    /\ rk_n' = rk_n + 1
    /\ UNCHANGED <<run_vars, tick_vars, api_vars>>

RankNext == RankInterval
InitRank == RunIdle /\ RankInit /\ TickIdle /\ ApiIdle
SpecRank == InitRank /\ [][RankNext]_vars

(***************************************************************************)
(* get_tick_damages, one event and then one wildfire at a time.            *)
(***************************************************************************)
\* the event loop, lines 196-256
TickReplay ==
    /\ tk_pc = "replay"
    /\ tk_n < MaxTickEvents
    /\ \E event \in TickEvents :
        LET st == TickStep([active |-> active_debuffs, tick |-> tick_damage,
                            wf |-> wildfires], event, tk_version, tk_window.end)
        IN /\ tk_event' = event
           /\ active_debuffs' = st.active
           /\ tick_damage' = st.tick
           /\ wildfires' = st.wf
           /\ tk_in_range' = (tk_in_range /\ InRange(event, tk_window))
    /\ tk_n' = tk_n + 1
    /\ UNCHANGED <<tk_pc, tk_version, tk_window, tk_wi, tk_queries>>
    /\ UNCHANGED <<run_vars, rank_vars, api_vars>>

\* the events are over: on to 'for source, wildfire in wildfires.items()'
TickEndReplay ==
    /\ tk_pc = "replay"
    /\ tk_pc' = "wildfire"
    /\ UNCHANGED <<tk_version, tk_window, tk_wi, tk_n, tk_event, active_debuffs,
                   tick_damage, wildfires, tk_queries, tk_in_range>>
    /\ UNCHANGED <<run_vars, rank_vars, api_vars>>

\* the record after its iteration: damage defaults to 0, a partial overlap is clamped
ReconciledRecord(w, start, end) ==
    LET d == [w EXCEPT !.damage = IF @ = Absent THEN 0 ELSE @]
    IN IF WildfireCase(w, start, end) = "partial"
       THEN [d EXCEPT !.start = WildfireQuery(w, start, end).start,
                      !.end = WildfireQuery(w, start, end).end]
       ELSE d

\* lines 261-309 for the next wildfire
TickReconcile ==
    /\ tk_pc = "wildfire"
    /\ tk_wi < Len(wildfires)
    /\ LET source == wildfires[tk_wi + 1][1]
           w == wildfires[tk_wi + 1][2]
       IN \E entries \in Answers :
            /\ tick_damage' = Reconcile(tick_damage, source, w, tk_window.start,
                                        tk_window.end, entries)
            /\ tk_queries' =
                 IF WildfireCase(w, tk_window.start, tk_window.end) = "partial"
                 THEN Append(tk_queries,
                             [source |-> source, target |-> w.target,
                              start |-> WildfireQuery(w, tk_window.start, tk_window.end).start,
                              end |-> WildfireQuery(w, tk_window.start, tk_window.end).end,
                              entries |-> entries])
                 ELSE tk_queries
            /\ wildfires' = [wildfires EXCEPT ![tk_wi + 1] =
                               <<source, ReconciledRecord(w, tk_window.start, tk_window.end)>>]
    /\ tk_wi' = tk_wi + 1
    /\ UNCHANGED <<tk_pc, tk_version, tk_window, tk_n, tk_event, active_debuffs,
                   tk_in_range>>
    /\ UNCHANGED <<run_vars, rank_vars, api_vars>>

\* line 311: return tick_damage
TickReturn ==
    /\ tk_pc = "wildfire"
    /\ tk_wi = Len(wildfires)
    /\ tk_pc' = "done"
    /\ UNCHANGED <<tk_version, tk_window, tk_wi, tk_n, tk_event, active_debuffs,
                   tick_damage, wildfires, tk_queries, tk_in_range>>
    /\ UNCHANGED <<run_vars, rank_vars, api_vars>>

\* lines 198-256: the next event of a stream of wildfire events
WildfireReplay ==
    /\ tk_pc = "replay"
    /\ tk_n < MaxWildfireEvents
    /\ \E event \in WildfireEvents :
        LET st == TickStep([active |-> active_debuffs, tick |-> tick_damage,
                            wf |-> wildfires], event, tk_version, tk_window.end)
        IN /\ tk_event' = event
           /\ active_debuffs' = st.active
           /\ tick_damage' = st.tick
           /\ wildfires' = st.wf
           /\ tk_in_range' = (tk_in_range /\ InRange(event, tk_window))
    /\ tk_n' = tk_n + 1
    /\ UNCHANGED <<tk_pc, tk_version, tk_window, tk_wi, tk_queries>>
    /\ UNCHANGED <<run_vars, rank_vars, api_vars>>

TickNext == TickReplay \/ TickEndReplay \/ TickReconcile \/ TickReturn
InitTick == RunIdle /\ RankIdle /\ TickInit /\ ApiIdle
SpecTick == InitTick /\ [][TickNext]_vars

\* get_tethers(report, start, end) on a longer stream of tether events
GetTethersInit ==
    /\ pc = "events" /\ outcome = "" /\ fights = <<>> /\ fight_id = 0 /\ version = 0
    /\ encounter_start = 0 /\ encounter_end = FightOf(1).end_time
    /\ tethers = <<>> /\ n_events = 0
    /\ tev = NoTetherEvent /\ ordered = TRUE /\ idx = 0 /\ correct = Unbound
    /\ results = <<>> /\ queries = <<>> /\ fetch_failure = ""

\* lines 93-117: the next event of the stream
GetTethersEvent ==
    /\ pc = "events"
    /\ n_events < MaxLeftEyeEvents
    /\ \E event \in TetherEvents :
        /\ tethers' = TetherStep(tethers, event, encounter_start)
        /\ ordered' = (ordered /\ (n_events = 0 \/ tev.timestamp <= event.timestamp))
        /\ tev' = event
    /\ n_events' = n_events + 1
    /\ UNCHANGED <<pc, outcome, fights, fight_id, version, encounter_start,
                   encounter_end, idx, correct, results, queries, fetch_failure>>
    /\ UNCHANGED <<rank_vars, tick_vars, api_vars>>

\* line 119: return tethers
GetTethersReturn ==
    /\ pc = "events"
    /\ pc' = "returned"
    /\ UNCHANGED <<outcome, fights, fight_id, version, encounter_start, encounter_end,
                   tethers, n_events, tev, ordered, idx, correct, results, queries,
                   fetch_failure>>
    /\ UNCHANGED <<rank_vars, tick_vars, api_vars>>

TethersNext == GetTethersEvent \/ GetTethersReturn
InitTethers == GetTethersInit /\ RankIdle /\ TickIdle /\ ApiIdle
SpecTethers == InitTethers /\ [][TethersNext]_vars

\* the replay and the reconciliation of get_tick_damages on legacy wildfire events
WildfireNext == WildfireReplay \/ TickEndReplay \/ TickReconcile \/ TickReturn
InitWildfire == RunIdle /\ RankIdle /\ WildfireInit /\ ApiIdle
SpecWildfire == InitWildfire /\ [][WildfireNext]_vars

(***************************************************************************)
(* fflogs_api(call, report, options), one request at a time.               *)
(* The provider holds the events of the query, each with its timestamp,    *)
(* and cuts them into pages; a page that is not the last carries the       *)
(* timestamp of the next page's first event as nextPageTimestamp.          *)
(***************************************************************************)
Calls == {"fights", "events/summary", "tables/damage-done", "tables/healing"}
Payloads == {"a", "b"}
RECURSIVE StreamsOfLen(_)
StreamsOfLen(n) ==
    IF n = 0 THEN {<<>>}
    ELSE {Append(u, [timestamp |-> n, payload |-> x]) : u \in StreamsOfLen(n - 1),
                                                         x \in Payloads}
Streams == UNION {StreamsOfLen(k) : k \in 0..MaxStreamLen}

\* the provider's answer to a request for the events from timestamp 'start' on:
\* the events up to the next cut, and the continuation token if events remain
ProviderPage(stream, cuts, start) ==
    LET later == {c \in cuts : c >= start}
        last == IF later = {} THEN Len(stream)
                ELSE CHOOSE c \in later : \A d \in later : c <= d
    IN [events |-> SubSeq(stream, start, last),
        next |-> IF later = {} THEN Absent ELSE last + 1]

ApiInit ==
    /\ api_pc = "call"
    /\ api_call \in Calls
    /\ api_stream \in Streams
    /\ api_cuts \in SUBSET (1..(Len(api_stream) - 1))
    /\ api_data = NoData /\ api_start = 1 /\ api_requests = <<>> /\ api_pages = <<>>
    /\ api_resp = NoResponse /\ api_error = ""

\* MergePage with the fault of the new page replacing the events read so far
MergePageReplacing(data, more) == [events |-> more.events, next |-> more.next]

\* data['events'].extend(more_data['events']) and the token's update
MergePage(data, more) == [events |-> data.events \o more.events, next |-> more.next]

\* line 46-47: a call that is not known returns {} and sends nothing
ApiUnknownCall ==
    /\ api_pc = "call"
    /\ api_call \notin {"fights", "events/summary", "tables/damage-done"}
    /\ api_pc' = "returned"
    /\ UNCHANGED <<api_call, api_stream, api_cuts, api_data, api_start, api_requests,
                   api_pages, api_resp, api_error>>
    /\ UNCHANGED <<run_vars, rank_vars, tick_vars>>

\* lines 49-55: the first request; a fight list or a table is returned as it is
ApiFirstFetch ==
    /\ api_pc = "call"
    /\ api_call \in {"fights", "events/summary", "tables/damage-done"}
    /\ \E resp \in Responses :
          /\ api_resp' = resp
          /\ api_error' = FetchOutcome(resp)
          /\ IF FetchOutcome(resp) = ""
             THEN LET page == IF api_call = "events/summary"
                              THEN ProviderPage(api_stream, api_cuts, api_start)
                              ELSE [events |-> api_stream, next |-> Absent]
                  IN /\ api_data' = page
                     /\ api_pages' = Append(api_pages, page)
                     /\ api_pc' = IF api_call \in {"fights", "tables/damage-done"}
                                  THEN "returned" ELSE "loop"
             ELSE /\ api_pc' = "raised"
                  /\ UNCHANGED <<api_data, api_pages>>
    /\ api_requests' = Append(api_requests, api_start)
    /\ UNCHANGED <<api_call, api_stream, api_cuts, api_start>>
    /\ UNCHANGED <<run_vars, rank_vars, tick_vars>>

\* lines 58-73: one iteration of 'while nextPageTimestamp in data'
ApiNextPage ==
    /\ api_pc = "loop"
    /\ api_data.next # Absent
    /\ api_start' = api_data.next
    /\ \E resp \in Responses :
          /\ api_resp' = resp
          /\ api_error' = FetchOutcome(resp)
          /\ IF FetchOutcome(resp) = ""
             THEN LET more == ProviderPage(api_stream, api_cuts, api_data.next)
                  IN /\ api_data' = MergePage(api_data, more)
                     /\ api_pages' = Append(api_pages, more)
                     /\ api_pc' = IF more.next # Absent THEN "loop" ELSE "returned"
             ELSE /\ api_pc' = "raised"
                  /\ UNCHANGED <<api_data, api_pages>>
    /\ api_requests' = Append(api_requests, api_data.next)
    /\ UNCHANGED <<api_call, api_stream, api_cuts>>
    /\ UNCHANGED <<run_vars, rank_vars, tick_vars>>

\* lines 58 and 76: the first page had no token, the loop is not entered
ApiReturn ==
    /\ api_pc = "loop"
    /\ api_data.next = Absent
    /\ api_pc' = "returned"
    /\ UNCHANGED <<api_call, api_stream, api_cuts, api_data, api_start, api_requests,
                   api_pages, api_resp, api_error>>
    /\ UNCHANGED <<run_vars, rank_vars, tick_vars>>

ApiNext == ApiUnknownCall \/ ApiFirstFetch \/ ApiNextPage \/ ApiReturn
InitApi == RunIdle /\ RankIdle /\ TickIdle /\ ApiInit
SpecApi == InitApi /\ [][ApiNext]_vars

(***************************************************************************)
(* Properties of a run of tethercalc (Spec).                               *)
(***************************************************************************)
Eligible(pair, source) == pair[1] # source /\ Friends[pair[1]].type # "LimitBreak"
NoCandidate(damage_list, source) ==
    \A i \in DOMAIN damage_list : ~Eligible(damage_list[i], source)
IsDamageQuery(q) == q.call = "tables/damage-done" /\ "sourceid" \notin DOMAIN q
IsTickQuery(q) == q.call = "events/summary" /\ q.end > encounter_end

\* C1: an interval whose ranked list has no entry that is neither the caster nor
\* a LimitBreak - the empty list included - does not make the run fail, and its
\* result's 'correct' is 'Nobody?', whether it is the first interval or a later one.
C1_NobodySentinel ==
    /\ outcome # "UnboundLocalError"
    /\ \A i \in DOMAIN results :
          NoCandidate(results[i].damages, results[i].source)
              => results[i].correct = "Nobody?"

\* C5: when no fight of the report has the requested id, tethercalc fails with
\* the TetherCalcException 'Fight ID not found in report' and with nothing else,
\* and returns no results.
C5_FightNotFound ==
    (pc # "fights" /\ fetch_failure = "" /\ MatchingFights(fights, fight_id) = <<>>)
        => /\ outcome = "TetherCalcException: Fight ID not found in report"
           /\ results = <<>>

\* C6: when the tether stream gives no apply and no remove event, so that the
\* list of tethers is empty, the run fails with 'No tethers found in fight'
\* before any damage table or tick event query is sent, and returns no results.
C6_NoTethersFound ==
    (pc \in {"loop", "done", "error"} /\ outcome # "IndexError" /\ fetch_failure = ""
        /\ tethers = <<>>)
        => /\ outcome = "TetherCalcException: No tethers found in fight"
           /\ results = <<>>
           /\ \A i \in DOMAIN queries : ~IsDamageQuery(queries[i]) /\ ~IsTickQuery(queries[i])
           /\ Len(queries) = 2

\* the stream held events, none of them an apply or a remove, and the run failed
C6_Witness ==
    /\ n_events > 0
    /\ tev.type = "refreshbuff"
    /\ outcome = "TetherCalcException: No tethers found in fight"

\* the window of every damage table and tick query lies inside the encounter
C7_Bounds ==
    ordered =>
        \A i \in DOMAIN queries :
            /\ IsDamageQuery(queries[i])
                  => /\ encounter_start <= queries[i].start
                     /\ queries[i].start <= queries[i].end
                     /\ queries[i].end <= encounter_end
            /\ IsTickQuery(queries[i])
                  => /\ encounter_start <= queries[i].start
                     /\ queries[i].start <= queries[i].end - TickExtension
                     /\ queries[i].end - TickExtension <= encounter_end
\* a tether without an end is analysed up to the end of the encounter
C7_OpenEnd ==
    (pc = "loop" /\ idx < Len(tethers) /\ queries' # queries)
        => (tethers[idx + 1].end = Absent
               => /\ queries'[Len(queries) + 1].end = encounter_end
                  /\ Len(queries') > Len(queries) + 1
                        => queries'[Len(queries) + 2].end = encounter_end + TickExtension
                  /\ tethers'[idx + 1].end = encounter_end)
\* C7: when the tether events come in non-decreasing timestamp order inside the
\* encounter, every interval handed to the damage queries has
\* encounter_start <= start <= end <= encounter_end, and an interval whose
\* remove event never came is handed over with end = encounter_end.
C7_WellFormedIntervals == [](C7_Bounds) /\ [][C7_OpenEnd]_vars

\* an ordered stream of an apply that is never removed and a remove that was
\* never applied: both intervals were analysed, the first up to the fight's end
C7_Witness ==
    /\ ordered /\ outcome = "ok" /\ Len(tethers) = 2 /\ idx = 2
    /\ tethers[1].end = encounter_end
    /\ tethers[2].start = encounter_start
    /\ \E i \in DOMAIN queries : IsDamageQuery(queries[i]) /\ queries[i].end = encounter_end

\* what a remove event without an open tether of its source does to the list
C8_Step ==
    (/\ pc = "tethers" /\ n_events' = n_events + 1
     /\ tev'.type = "removebuff"
     /\ \A i \in DOMAIN tethers :
           ~(tethers[i].source = tev'.sourceID /\ tethers[i].end = Absent))
        => /\ Len(tethers') = Len(tethers) + 1
           /\ \A i \in DOMAIN tethers : tethers'[i] = tethers[i]
           /\ tethers'[Len(tethers')].source = tev'.sourceID
           /\ tethers'[Len(tethers')].target = tev'.targetID
           /\ tethers'[Len(tethers')].end = tev'.timestamp
           /\ tethers'[Len(tethers')].start >= tev'.timestamp - 20000
           /\ tethers'[Len(tethers')].start >= encounter_start
           /\ tethers'[Len(tethers')].start \in {tev'.timestamp - 20000, encounter_start}
\* C8: a remove event at t for a source with no tether lacking an end appends
\* exactly one tether, with the event's source and target,
\* start = max(t - 20000, encounter_start) and end = t, and changes no other.
C8_SyntheticInterval == [][C8_Step]_vars

\* the remove at 12000 of a fight starting at 0 gave the interval 0..12000, while
\* another source's tether stayed open
C8_Witness ==
    /\ pc = "tethers" /\ encounter_start = 0 /\ Len(tethers) = 2
    /\ tethers[1].end = Absent
    /\ tev.type = "removebuff" /\ tev.timestamp = 12000
    /\ tethers[2] = [source |-> tev.sourceID, target |-> tev.targetID,
                     start |-> 0, end |-> 12000]

(***************************************************************************)
(* Properties of the loop body (SpecRank).                                 *)
(***************************************************************************)
Amount(d, k) == IF DictHas(d, k) THEN DictGet(d, k) ELSE 0

\* C2: the merge of the direct and the tick map holds every actor of either
\* map, with direct[actor] + tick[actor], an absent entry counting as zero; an
\* actor only the tick map holds is in the merge with its tick total.
C2_MergeHoldsEveryActor ==
    rk_n > 0 =>
        LET merged == GetRealDamages(rk_in[1].damages, rk_in[1].tick)
        IN /\ DictKeys(merged) = DictKeys(rk_in[1].damages) \cup DictKeys(rk_in[1].tick)
           /\ \A k \in DictKeys(merged) :
                 DictGet(merged, k) = Amount(rk_in[1].damages, k) + Amount(rk_in[1].tick, k)

\* C3: the result's damage list is in non-increasing order of amount, and when
\* an entry is neither the caster nor a LimitBreak, 'correct' names the first
\* such entry, so that no eligible actor has a higher total than the one named.
C3_RankedAndFirstEligible ==
    rk_n > 0 =>
        LET list == rk_out[1].result.damages
            source == rk_in[1].tether.source
            eligible == {i \in DOMAIN list : Eligible(list[i], source)}
        IN /\ \A i, j \in DOMAIN list : i < j => list[i][2] >= list[j][2]
           /\ eligible # {} =>
                 \E i \in eligible :
                    /\ \A j \in eligible : i <= j
                    /\ \A j \in eligible : list[j][2] <= list[i][2]
                    /\ rk_out[1].raised = ""
                    /\ rk_out[1].result.correct = Friends[list[i][1]].name

\* the table came in ascending order with the caster on top after the sort, and
\* the second entry of the sorted list was named
C3_Witness ==
    /\ rk_n > 0
    /\ Len(rk_in[1].damages) = 2
    /\ rk_in[1].damages[1][2] < rk_in[1].damages[2][2]
    /\ rk_out[1].result.damages[1][1] = rk_in[1].tether.source
    /\ Eligible(rk_out[1].result.damages[2], rk_in[1].tether.source)
    /\ rk_out[1].result.correct = Friends[rk_out[1].result.damages[2][1]].name
    /\ rk_in[1].cur # rk_out[1].result.correct

\* C9: the correction changes the tethered target's entry only, from a total x
\* to x / 1.05 truncated, which is never negative and never above x; every
\* other total stays, and a target without an entry leaves the map as it was.
C9_SelfBuffCorrection ==
    rk_n > 0 =>
        LET merged == GetRealDamages(rk_in[1].damages, rk_in[1].tick)
            list == rk_out[1].result.damages
            target == rk_in[1].tether.target
        IN /\ DictKeys(list) = DictKeys(merged)
           /\ Len(list) = Len(merged)
           /\ \A k \in DictKeys(merged) :
                 LET x == DictGet(merged, k)
                     v == DictGet(list, k)
                 IN IF k = target
                    THEN /\ 0 <= v /\ v <= x
                         /\ 105 * v <= 100 * x
                         /\ 100 * x < 105 * (v + 1)
                    ELSE v = x

\* the target's 5000 direct and 1000 tick damage became 5714, next to an
\* untouched 3000
C9_Witness ==
    /\ rk_n > 0
    /\ rk_in[1].tether.target = 1
    /\ rk_in[1].damages = <<<<1, 5000>>, <<2, 3000>>>>
    /\ rk_in[1].tick = <<<<1, 1000>>>>
    /\ rk_out[1].result.damages = <<<<1, 5714>>, <<2, 3000>>>>

(***************************************************************************)
(* Properties of the tick replay (SpecTick).                               *)
(***************************************************************************)
\* the totals after crediting 'who' with 'amount', actor by actor
Credited(before, after, who, amount) ==
    /\ DictKeys(after) = DictKeys(before) \cup {who}
    /\ \A a \in DictKeys(after) :
          DictGet(after, a) = Amount(before, a) + (IF a = who THEN amount ELSE 0)

\* what the replay of one damage event does to the totals
C4_Step ==
    (/\ tk_pc = "replay" /\ tk_n' = tk_n + 1
     /\ tk_event'.type = "damage"
     /\ ~(tk_event'.guid = 1000861 /\ tk_version < 20))
        => IF tk_event'.guid = 799 /\ tk_event'.timestamp < tk_window.end
           THEN Credited(tick_damage, tick_damage', tk_event'.supportID, tk_event'.amount)
           ELSE IF \E i \in DOMAIN active_debuffs :
                      active_debuffs[i] = <<tk_event'.sourceID, tk_event'.guid>>
           THEN Credited(tick_damage, tick_damage', tk_event'.sourceID, tk_event'.amount)
           ELSE tick_damage' = tick_damage
\* C4: a damage event that is not a legacy wildfire event changes at most one
\* total, by the event's amount: the supportID's when the ability is 799 and the
\* timestamp is before end; else the sourceID's when (sourceID, ability) is
\* active at that point; else none.  A debuff applied before end whose one tick
\* of 1000 is logged later credits its source with exactly 1000.
C4_DamageCredit == [][C4_Step]_vars

\* after an apply before end, the tick of 1000 logged at 4000 left its source
\* with 1000 and nobody else with anything
C4_Witness ==
    /\ tk_pc = "replay" /\ tk_n = 2
    /\ tk_event.type = "damage" /\ tk_event.timestamp = 4000 /\ tk_event.guid = 1000118
    /\ tk_event.sourceID = 1
    /\ active_debuffs = <<<<1, 1000118>>>>
    /\ tick_damage = <<<<1, 1000>>>>

(***************************************************************************)
(* Properties of a call of fflogs_api (SpecApi).                           *)
(***************************************************************************)
RECURSIVE Concat(_, _)
Concat(pages, i) ==
    IF i > Len(pages) THEN <<>> ELSE pages[i].events \o Concat(pages, i + 1)

\* C10: an event-stream call returns only after a page without
\* nextPageTimestamp; each follow-up request has start set to the page before's
\* token; the events returned are the pages' events in page order, with no
\* token left; whatever the pages the provider cuts, the result is the stream.
C10_Pagination ==
    api_call = "events/summary" =>
        /\ \A i \in DOMAIN api_requests :
              i > 1 => api_requests[i] = api_pages[i - 1].next
        /\ Len(api_requests) = Len(api_pages) + (IF api_pc = "raised" THEN 1 ELSE 0)
        /\ api_pc = "returned" =>
              /\ api_pages # <<>>
              /\ api_pages[Len(api_pages)].next = Absent
              /\ \A i \in 1..(Len(api_pages) - 1) : api_pages[i].next # Absent
              /\ api_data.events = Concat(api_pages, 1)
              /\ api_data.next = Absent
              /\ api_data.events = api_stream

\* three events came in three pages and were returned as one list
C10_Witness ==
    /\ api_call = "events/summary" /\ api_pc = "returned"
    /\ Len(api_pages) = 3 /\ Len(api_data.events) = 3
    /\ api_requests = <<1, 2, 3>>

\* C11: fflogs_fetch classifies the provider's response: a body that is not
\* JSON raises the 'could not parse' TetherCalcException; a JSON body with a
\* non-success status and an 'error' field raises the 'FFLogs error'
\* TetherCalcException; a JSON body with a non-success status and no 'error'
\* field raises the 'unexpected response code' TetherCalcException and no other
\* kind of failure; a JSON body with the success status is returned.
C11_FetchClassification ==
    api_requests # <<>> =>
        /\ ~api_resp.parseable => api_pc = "raised" /\ api_error = CouldNotParse
        /\ (api_resp.parseable /\ api_resp.status # HttpOk /\ api_resp.has_error)
              => api_pc = "raised" /\ api_error = FFLogsError
        /\ (api_resp.parseable /\ api_resp.status # HttpOk /\ ~api_resp.has_error)
              => api_pc = "raised" /\ api_error = UnexpectedCode
        /\ (api_resp.parseable /\ api_resp.status = HttpOk)
              => api_pc # "raised" /\ api_error = ""

\* C12: once a provider fetch of the run has failed - the fight list's, the
\* tether events', a damage table's, a tick stream's or a secondary query's -
\* the run has ended in that error, whatever the number of intervals analysed
\* before; it returns no results, and no step of the run can follow: the
\* failed fetch is not retried and nothing is fetched after it.
C12_FetchFailureAborts ==
    fetch_failure # ""
        => /\ pc = "error"
           /\ outcome = fetch_failure
           /\ ~ENABLED Next

\* the first interval was analysed and recorded, then the secondary query of
\* the second interval failed
C12_Witness ==
    /\ pc = "error" /\ fetch_failure = "TypeError"
    /\ Len(results) = 1 /\ idx = 1 /\ Len(tethers) = 2
    /\ "sourceid" \in DOMAIN queries[Len(queries)]

\* the reconciliation of the next record, seen from the state before it
Reconciling == tk_pc = "wildfire" /\ tk_wi' = tk_wi + 1
NextSource == wildfires[tk_wi + 1][1]
NextRecord == wildfires[tk_wi + 1][2]
NextCase == WildfireCase(NextRecord, tk_window.start, tk_window.end)
QuerySent == Len(tk_queries') = Len(tk_queries) + 1
LastQuery == tk_queries[Len(tk_queries)]

C13_Step ==
    Reconciling =>
        /\ (NextCase = "partial" /\ LastQuery'.entries = <<>>)
              => tick_damage' = tick_damage
        /\ NextRecord.damage = Absent
              => /\ wildfires'[tk_wi + 1][2].damage = 0
                 /\ NextCase = "inside"
                       => Credited(tick_damage, tick_damage', NextSource, 0)
\* C13: in the legacy reconciliation a partial-overlap record whose secondary
\* query is answered with no entries leaves every tick total as it was and
\* creates no entry, and the reconciliation goes on without an error; a record
\* that saw no damage event gets damage 0 and counts as 0.
C13_EmptyAnswer ==
    /\ [](tk_pc = "wildfire" /\ tk_wi < Len(wildfires) => ENABLED TickReconcile)
    /\ [][C13_Step]_vars

\* a record with an end and no start was answered with no entries: the query
\* was sent and the source, which had no tick total, still has none
C13_Witness ==
    /\ tk_pc = "done" /\ Len(wildfires) = 1 /\ Len(tk_queries) = 1
    /\ tk_queries[1].entries = <<>>
    /\ wildfires[1][2].damage = 0
    /\ tick_damage = <<>>

\* a remove event arrives while its source has two or more open tethers
RemoveWithSeveralOpen ==
    /\ pc = "events" /\ n_events' = n_events + 1
    /\ tev'.type = "removebuff"
    /\ Cardinality(TetherSet(tethers, tev'.sourceID)) >= 2
OldestOpen ==
    CHOOSE j \in TetherSet(tethers, tev'.sourceID) :
        \A k \in TetherSet(tethers, tev'.sourceID) : j <= k
LatestOpen ==
    CHOOSE j \in TetherSet(tethers, tev'.sourceID) :
        \A k \in TetherSet(tethers, tev'.sourceID) : j >= k

\* C14 as claimed: when a source has two or more tethers without an end and one
\* of its remove events arrives, the event closes the most recent of them, the
\* one opened by the latest apply event, with the event's timestamp, and leaves
\* the others open.
C14_ClosesMostRecent ==
    [][RemoveWithSeveralOpen
          => tethers' = [tethers EXCEPT ![LatestOpen].end = tev'.timestamp]]_vars

\* C14 as the code has it: when a source has two or more tethers without an
\* end and one of its remove events arrives, the event closes the oldest of
\* them, the first in list order, opened by the earliest apply event, with the
\* event's timestamp, and leaves the others open.
C14_ClosesOldest ==
    [][RemoveWithSeveralOpen
          => tethers' = [tethers EXCEPT ![OldestOpen].end = tev'.timestamp]]_vars

\* two applies of actor 1 and then its remove: the first tether is closed at
\* the remove's timestamp, the second is still open
C14_Witness ==
    /\ pc = "events" /\ n_events = 3 /\ Len(tethers) = 2
    /\ tev.type = "removebuff" /\ tev.sourceID = 1 /\ tev.timestamp = 24000
    /\ tethers[1].source = 1 /\ tethers[2].source = 1
    /\ tethers[1].start = 12000 /\ tethers[2].start = 12000
    /\ tethers[1].target # tethers[2].target
    /\ tethers[1].end = 24000 /\ tethers[2].end = Absent

\* the replay of the next event, seen from the state before it
Replaying == tk_pc = "replay" /\ tk_n' = tk_n + 1
EventKey == <<tk_event'.sourceID, tk_event'.guid>>
LegacyWildfireEvent == tk_event'.guid = Wildfire /\ tk_version < ShadowbringersVersion
NoDuplicateKey ==
    \A i, j \in DOMAIN active_debuffs : i # j => active_debuffs[i] # active_debuffs[j]
\* what an event does to the active set when it goes down the ordinary path
ActiveSetStep ==
    IF tk_event'.type \in ApplyTypes /\ tk_event'.timestamp < tk_window.end
    THEN active_debuffs' = IF InList(active_debuffs, EventKey) THEN active_debuffs
                           ELSE Append(active_debuffs, EventKey)
    ELSE IF tk_event'.type \in ApplyTypes /\ tk_event'.timestamp > tk_window.end
    THEN active_debuffs' = SelectSeq(active_debuffs, LAMBDA k : k # EventKey)
    ELSE active_debuffs' = active_debuffs

\* C15 as claimed: the active set never holds a key twice, and every replayed
\* event treats it so: an apply or refresh before end adds the event's key if it
\* is absent, one after end removes it, one at end changes nothing, and remove
\* and damage events change nothing - so that a key is in the set exactly when
\* its last apply or refresh with a timestamp other than end was before end.
C15_ActiveSet == [](NoDuplicateKey) /\ [][Replaying => ActiveSetStep]_vars

\* C15 as the code has it: the same, for every event but those of the wildfire
\* ability (1000861) in a log of version below 20; these never change the
\* active set, so that their key is never in it.
C15_ActiveSetButLegacy ==
    /\ [](NoDuplicateKey)
    /\ [][Replaying => IF LegacyWildfireEvent THEN active_debuffs' = active_debuffs
                        ELSE ActiveSetStep]_vars

\* the key was added by an application before end, and a second application
\* of it, exactly at end, left it in the set
C15_Witness ==
    /\ tk_pc = "replay" /\ tk_n = 2
    /\ tk_event.type = "applydebuff" /\ tk_event.timestamp = tk_window.end
    /\ active_debuffs = <<<<tk_event.sourceID, tk_event.guid>>>>

\* the record is neither fully inside the window nor starting after its end
PartialOverlap == NextCase \notin {"inside", "after"}
\* one secondary query is sent for the record, its window the record's with a
\* missing start, a missing end and an end past the window's end clamped to the
\* window, for the record's source and target; a quarter of the first total
\* returned, truncated, goes to the source
ReconciledByOneQuery ==
    /\ QuerySent
    /\ LastQuery'.source = NextSource
    /\ LastQuery'.target = NextRecord.target
    /\ LastQuery'.start = (IF NextRecord.start = Absent THEN tk_window.start
                           ELSE NextRecord.start)
    /\ LastQuery'.end = (IF NextRecord.end = Absent \/ NextRecord.end > tk_window.end
                         THEN tk_window.end ELSE NextRecord.end)
    /\ LastQuery'.entries # <<>>
          => Credited(tick_damage, tick_damage', NextSource,
                      Quarter(LastQuery'.entries[1].total))

\* C16: in a legacy log every wildfire record that is neither fully inside the
\* window nor starting after its end is reconciled by exactly one secondary
\* damage-table query: a missing start, a missing end or an end past the
\* window's end is clamped to the window, the query is for the record's source
\* and target, and the truncation of 0.25 times the first total returned is
\* added to the source's tick total.
C16_PartialOverlapReconciled == [][(Reconciling /\ PartialOverlap) => ReconciledByOneQuery]_vars

FullyInside ==
    /\ NextRecord.start # Absent /\ NextRecord.end # Absent
    /\ NextRecord.start > tk_window.start /\ NextRecord.end < tk_window.end
StartsAfter == NextRecord.start # Absent /\ NextRecord.start > tk_window.end
\* C17: in a legacy log a wildfire record with both boundaries set, its start
\* after the window's start and its end before the window's end, adds exactly
\* its recorded damage to its source's tick total, without a secondary query;
\* a record that starts after the window's end changes no total and sends no
\* query.
C17_InsideAndAfter ==
    [][Reconciling =>
          /\ FullyInside
                => /\ Credited(tick_damage, tick_damage', NextSource,
                               IF NextRecord.damage = Absent THEN 0 ELSE NextRecord.damage)
                   /\ tk_queries' = tk_queries
          /\ StartsAfter
                => tick_damage' = tick_damage /\ tk_queries' = tk_queries]_vars

\* the record of the replayed event's source, before and after the event
RecordBefore ==
    IF DictHas(wildfires, tk_event'.sourceID) THEN DictGet(wildfires, tk_event'.sourceID)
    ELSE NoWildfire
RecordAfter == DictGet(wildfires', tk_event'.sourceID)
KeepsSet(f) == RecordBefore[f] # Absent => RecordAfter[f] = RecordBefore[f]
FirstRemoval == tk_event'.type = "removedebuff" /\ RecordBefore.end = Absent

\* C18 as claimed: in the replay of a legacy log every field of a source's
\* wildfire record is set at most once - no later event of that source and
\* ability changes a start, end, damage or target that has a value - and the
\* recorded end is the timestamp of the first removal event.
C18_SetOnce ==
    [][(Replaying /\ LegacyWildfireEvent)
          => /\ \A f \in {"start", "end", "damage", "target"} : KeepsSet(f)
             /\ FirstRemoval => RecordAfter.end = tk_event'.timestamp]_vars

\* C18 as the code has it: start, end and damage are set at most once, the
\* recorded end is the timestamp of the first removal event less 750 ms, and
\* the target is that of the source's latest wildfire event, whatever it was
\* before; the records of the other sources stay as they are.
C18_SetOnceButTarget ==
    [][(Replaying /\ LegacyWildfireEvent)
          => /\ \A f \in {"start", "end", "damage"} : KeepsSet(f)
             /\ FirstRemoval => RecordAfter.end = tk_event'.timestamp - WildfireTail
             /\ RecordAfter.target = tk_event'.targetID
             /\ \A s \in DictKeys(wildfires) \ {tk_event'.sourceID} :
                   DictGet(wildfires', s) = DictGet(wildfires, s)]_vars

\* an apply at 4000, a removal at 5000 and a second removal at 6000 with another
\* target: the end is still that of the first removal, the target is the last
C18_Witness ==
    /\ tk_pc = "replay" /\ tk_n = 3 /\ Len(wildfires) = 1
    /\ tk_event.type = "removedebuff" /\ tk_event.timestamp = 6000
    /\ tk_event.targetID = 8
    /\ wildfires[1][2] = [start |-> 4000, end |-> 4250, damage |-> Absent, target |-> 8]

\* C19: the record tethercalc produces for an interval depends on the interval
\* and the provider data of its window only: after whatever intervals came
\* before, it is the record the interval gets when it is the only one of the
\* fight, analysed with nothing left over from an earlier iteration.
C19_IntervalsIndependent ==
    rk_n > 0 =>
        LET alone == AnalyseTether(rk_in[1].tether, rk_in[1].damages, rk_in[1].tick,
                                   Unbound, 0)
        IN /\ rk_out[1].raised = alone.raised
           /\ rk_out[1].result = alone.result

\* what a damage event of an ability other than 799 does on the ordinary path
OrdinaryCredit ==
    IF tk_event'.type = "damage" /\ InList(active_debuffs, EventKey)
    THEN Credited(tick_damage, tick_damage', tk_event'.sourceID, tk_event'.amount)
    ELSE tick_damage' = tick_damage
C20_Step ==
    (Replaying /\ tk_event'.guid = Wildfire)
        => IF tk_version >= ShadowbringersVersion
           THEN ActiveSetStep /\ OrdinaryCredit
           ELSE active_debuffs' = active_debuffs /\ tick_damage' = tick_damage
\* C20: with a log_version of 20 or more get_tick_damages keeps no wildfire
\* record and sends no secondary query, and the events of ability 1000861 are
\* treated like any other debuff's: applications enter and leave the active
\* set and a tick is credited to its source when its key is active. With a
\* log_version below 20 the events of that ability never change the active set
\* and never credit damage during the replay.
C20_LegacyOnly ==
    /\ [](tk_version >= ShadowbringersVersion => wildfires = <<>> /\ tk_queries = <<>>)
    /\ [][C20_Step]_vars

\* version 20: a wildfire applied before end and its tick of 1000, credited to
\* its source through the active set, with no record kept
C20_Witness ==
    /\ tk_version = 20 /\ tk_pc = "replay" /\ tk_n = 2
    /\ tk_event.type = "damage" /\ tk_event.guid = Wildfire /\ tk_event.sourceID = 1
    /\ active_debuffs = <<<<1, Wildfire>>>>
    /\ tick_damage = <<<<1, 1000>>>>
    /\ wildfires = <<>>

\* C21: when every replayed event has its timestamp between the window's start
\* and 60 s after its end, each secondary damage-table query of the legacy
\* reconciliation asks for a well-formed part of the window:
\* start <= query start <= query end <= end.
C21_QueryInsideWindow ==
    [][(Reconciling /\ QuerySent /\ tk_in_range)
          => /\ tk_window.start <= LastQuery'.start
             /\ LastQuery'.start <= LastQuery'.end
             /\ LastQuery'.end <= tk_window.end]_vars
====
